---- MODULE Spec2Model ----
(***************************************************************************)
(* Warehouse manager: the three Dexie tables of src/lib/database.ts, the   *)
(* data-access functions over them, and the React handlers of              *)
(* WarehouseLayout, GroupManagement and LayoutVisualization that call      *)
(* them.  Every awaited storage call is one step of the handler that       *)
(* issues it, and may reject (the handlers' catch blocks).                 *)
(***************************************************************************)
EXTENDS Integers, Sequences, FiniteSets, TLC

\* ------------------------------------------------------------------ bounds
\* Number of calls in a run that create a layout or a group, toggle a
\* location, or are rejected by the store.
MaxOps == 3

\* ------------------------------------------------------------- option values
\* null / undefined is the empty sequence, a present value x is <<x>>.
Null == << >>
Some(x) == << x >>

\* ------------------------------------------------------------ handler inputs
\* What the layout form holds when "Criar Layout" is clicked: the text and
\* number inputs are overwritten freely by the user, so they are the
\* handler's inputs.  parseInt(v) || 1 lets negative numbers through.
LayoutForms ==
    { [name |-> "A", rows |-> 1, columns |-> 2],
      [name |-> "B", rows |-> 2, columns |-> 1],
      [name |-> " ", rows |-> 1, columns |-> 1],
      [name |-> "A", rows |-> -1, columns |-> 1],
      [name |-> "A", rows |-> 1, columns |-> -1] }

\* What the group form holds when "Create Group" is clicked (the selected
\* column is component state, see gm.selectedColumn).
GroupForms ==
    { [name |-> "A", rows |-> 1, columns |-> 2, addressFormat |-> "ROW-COL"],
      [name |-> "B", rows |-> 2, columns |-> 2, addressFormat |-> "LETTER-NUMBER"],
      [name |-> "", rows |-> 1, columns |-> 1, addressFormat |-> "ROW-COL"],
      [name |-> "A", rows |-> -1, columns |-> 1, addressFormat |-> "ROW-COL"],
      [name |-> "A", rows |-> 1, columns |-> -1, addressFormat |-> "ROW-COL"] }

\* --------------------------------------------------------------------- text
Digit == << "0", "1", "2", "3", "4", "5", "6", "7", "8", "9" >>

\* Template-literal conversion of a non-negative integer: its decimal digits.
RECURSIVE numberToString(_)
numberToString(n) ==
    IF n < 10 THEN Digit[n + 1]
    ELSE numberToString(n \div 10) \o Digit[(n % 10) + 1]

\* UTF-16 code units 65..95.
CharTable ==
    << "A", "B", "C", "D", "E", "F", "G", "H", "I", "J", "K", "L", "M",
       "N", "O", "P", "Q", "R", "S", "T", "U", "V", "W", "X", "Y", "Z",
       "[", "\\", "]", "^", "_" >>

fromCharCode(code) == CharTable[code - 64]

\* String.prototype.trim on the names the forms offer: blanks are removed.
trim(s) == IF s = " " THEN "" ELSE s

\* Fault seeded for AddressRowCol: the 0-based indices are printed as they are.
addressRowColZeroBased(groupName, row, col) ==
    groupName \o "-" \o numberToString(row) \o "-" \o numberToString(col)

\* Fault seeded for AddressLetterNumber: the letter is taken from the column.
addressLetterNumberByColumn(groupName, row, col) ==
    groupName \o "-" \o fromCharCode(65 + col) \o "-" \o numberToString(col + 1)

\* The address built in the creation loop for one cell.
addressRowCol(groupName, row, col) ==
    groupName \o "-" \o numberToString(row + 1) \o "-" \o numberToString(col + 1)

addressLetterNumber(groupName, row, col) ==
    groupName \o "-" \o fromCharCode(65 + row) \o "-" \o numberToString(col + 1)

makeAddress(addressFormat, groupName, row, col) ==
    CASE addressFormat = "ROW-COL" -> addressRowCol(groupName, row, col)
      [] addressFormat = "LETTER-NUMBER" -> addressLetterNumber(groupName, row, col)
      [] OTHER -> addressRowCol(groupName, row, col)

\* ------------------------------------------------------------ table queries
\* db.<table>.orderBy('createdAt'): the records in index order, ascending
\* by createdAt, records of equal createdAt by primary key.
RECURSIVE orderByCreatedAt(_)
orderByCreatedAt(table) ==
    IF table = {} THEN << >>
    ELSE LET first == CHOOSE r \in table : \A q \in table :
                          \/ r.createdAt < q.createdAt
                          \/ r.createdAt = q.createdAt /\ r.id <= q.id
         IN  << first >> \o orderByCreatedAt(table \ {first})

\* Collection.reverse(): the same cursor walked backwards.
reverse(s) == [i \in 1..Len(s) |-> s[Len(s) + 1 - i]]

\* Collection.toArray() of a where() clause: matching records by primary key.
RECURSIVE toArray(_)
toArray(records) ==
    IF records = {} THEN << >>
    ELSE LET first == CHOOSE r \in records : \A q \in records : r.id <= q.id
         IN  << first >> \o toArray(records \ {first})

\* db.<table>.where({field: value}): the matching records.
whereLayoutId(table, layoutId) == {r \in table : r.layoutId = layoutId}
whereGroupId(table, groupId) == {r \in table : r.groupId = groupId}

\* db.<table>.get(id): the record, or undefined.
get(table, id) ==
    IF \E r \in table : r.id = id
    THEN Some(CHOOSE r \in table : r.id = id)
    ELSE Null

\* db.<table>.delete(id)
delete(table, id) == {r \in table : r.id # id}

\* Fault seeded for UniqueIds: the key is the number of records plus one.
addByCount(table, record, nextId) ==
    table \cup {[id |-> Cardinality(table) + 1] @@ record}

\* db.<table>.add(record) under '++id': the key generator's next number is
\* the record's id.
add(table, record, nextId) == table \cup {[id |-> nextId] @@ record}

\* Fault seeded for ToggleFrame: the changes are merged into every record.
updateAll(table, id, changes) == {changes @@ r : r \in table}

\* db.<table>.update(id, changes): merge into the record, if it is there.
update(table, id, changes) ==
    {IF r.id = id THEN changes @@ r ELSE r : r \in table}

\* -------------------------------------------------------------------- state
VARIABLES
    layouts,        \* db.layouts: the stored Layout records
    groups,         \* db.groups
    locations,      \* db.locations
    autoInc,        \* the '++id' key generator of each table: its next number
    clock,          \* the wall clock new Date() reads, in milliseconds: it
                    \* never runs backwards, and two reads may be equal
    selectedLayout, \* Index: useState(null)
    activeTab,      \* Index: the tab whose content is mounted
    wl,             \* WarehouseLayout state: layouts, loading
    gm,             \* GroupManagement state: selectedColumn, groups, loading
    lv,             \* LayoutVisualization state: groups, locations, loading, selectedLocation
    effects,        \* useEffect loads in flight, each with what its reads return
    cl,             \* the handleCreateLayout call in flight
    dl,             \* the handleDeleteLayout call in flight
    cg,             \* the handleCreateGroup call in flight
    dg,             \* the handleDeleteGroup call in flight
    tg,             \* the toggleOccupancy call in flight
    tg2,            \* a toggleOccupancy call started while tg is in flight
    cg2,            \* a handleCreateGroup call started while cg is in flight
    toggles,        \* number of toggleOccupancy calls so far
    failures,       \* number of storage calls that rejected so far
    created         \* history: the createLayout calls that returned, in order,
                    \* less those whose layout deleteLayout has deleted

vars ==
    << layouts, groups, locations, autoInc, clock, selectedLayout, activeTab,
       wl, gm, lv, effects, cl, dl, cg, cg2, dg, tg, tg2, toggles, failures, created >>

store == << layouts, groups, locations, autoInc, clock >>

idle == [pc |-> "idle"]

\* No handler and no effect is between two of its steps.
Quiescent ==
    /\ cl.pc = "idle" /\ dl.pc = "idle" /\ cg.pc = "idle"
    /\ dg.pc = "idle" /\ tg.pc = "idle" /\ tg2.pc = "idle" /\ cg2.pc = "idle"
    /\ effects.loadLayouts = {}
    /\ effects.loadGroups = {} /\ effects.loadData = {}

Init ==
    /\ layouts = {} /\ groups = {} /\ locations = {}
    /\ autoInc = [layouts |-> 1, groups |-> 1, locations |-> 1]
    /\ clock = 0
    /\ selectedLayout = Null
    /\ activeTab = "layout"
    /\ wl = [layouts |-> << >>, loading |-> FALSE]
    /\ gm = [selectedColumn |-> Null, groups |-> << >>, loading |-> FALSE]
    /\ lv = [groups |-> << >>, locations |-> << >>, loading |-> FALSE,
             selectedLocation |-> Null]
    /\ effects = [loadLayouts |-> {[ok |-> TRUE, layouts |-> << >>,
                                     alive |-> TRUE]},
                  loadGroups |-> {}, loadData |-> {}]
    /\ cl = idle /\ dl = idle /\ cg = idle /\ dg = idle /\ tg = idle /\ tg2 = idle /\ cg2 = idle
    /\ toggles = 0
    /\ failures = 0
    /\ created = << >>

\* ----------------------------------------------------- data access: layouts
\* Fault seeded for CreateReadRoundTrip: rows and columns are stored swapped.
createLayoutSwapped(layout, createdAt) ==
    add(layouts,
        [name |-> layout.name, rows |-> layout.columns,
         columns |-> layout.rows, createdAt |-> createdAt],
        autoInc.layouts)

\* createLayout: the table after db.layouts.add({...layout, createdAt}).
createLayout(layout, createdAt) ==
    add(layouts, layout @@ [createdAt |-> createdAt], autoInc.layouts)

\* Fault seeded for GetLayoutsNewestFirst: the index is not walked backwards.
getLayoutsAscending == orderByCreatedAt(layouts)

\* getLayouts: db.layouts.orderBy('createdAt').reverse().toArray().
getLayouts == reverse(orderByCreatedAt(layouts))

getLayoutById(id) == get(layouts, id)

getGroupsByLayoutId(layoutId) == toArray(whereLayoutId(groups, layoutId))

getLocationsByGroupId(groupId) == toArray(whereGroupId(locations, groupId))

getLocationsByLayoutId(layoutId) == toArray(whereLayoutId(locations, layoutId))

\* ------------------------------------------------------------ storage calls
\* The calls counted against MaxOps so far.
spent == (autoInc.layouts - 1) + (autoInc.groups - 1) + toggles + failures

\* An awaited storage call resolves, or rejects and is counted.
resolves == failures' = failures
rejects == spent < MaxOps /\ failures' = failures + 1

\* A storage read either resolves with the rows or rejects.
readGroups(layoutId) ==
    { [ok |-> TRUE, groups |-> getGroupsByLayoutId(layoutId)],
      [ok |-> FALSE, groups |-> << >>] }

readData(layoutId) ==
    { [ok |-> TRUE, groups |-> getGroupsByLayoutId(layoutId),
       locations |-> getLocationsByLayoutId(layoutId)],
      [ok |-> FALSE, groups |-> << >>, locations |-> << >>] }

readLayouts ==
    { [ok |-> TRUE, layouts |-> getLayouts],
      [ok |-> FALSE, layouts |-> << >>] }

\* The reads of rs are counted: n of them rejected.
counted(n) == spent + n <= MaxOps /\ failures' = failures + n
rejected(r) == IF r.ok THEN 0 ELSE 1

\* ------------------------------------------------------------------- Index
\* Only the content of the active tab is mounted (Tabs / TabsContent).
\* setSelectedLayout(value) re-renders the mounted component, whose effect
\* depends on [selectedLayout]: with a layout that has an id,
\* GroupManagement calls loadGroups and resets the selected column,
\* LayoutVisualization calls loadData; their reads are issued at once.
\* eff is the effects record they are added to, n the number of reads the
\* caller saw rejected in the same step.
setSelectedLayout(value, eff, n) ==
    /\ selectedLayout' = value
    /\ IF value # Null /\ value[1].id # 0 /\ activeTab = "groups"
       THEN /\ \E g \in readGroups(value[1].id) :
                 /\ counted(n + rejected(g))
                 /\ effects' = [eff EXCEPT !.loadGroups = @ \cup {g}]
            /\ gm' = [gm EXCEPT !.selectedColumn = Null]
            /\ lv' = lv
       ELSE IF value # Null /\ value[1].id # 0 /\ activeTab = "visualization"
       THEN /\ \E d \in readData(value[1].id) :
                 /\ counted(n + rejected(d))
                 /\ effects' = [eff EXCEPT !.loadData = @ \cup {d}]
            /\ lv' = [lv EXCEPT !.loading = TRUE]
            /\ gm' = gm
       ELSE /\ counted(n)
            /\ effects' = eff
            /\ UNCHANGED << gm, lv >>

\* The state each component is constructed with (its useState calls).
wlInitial == [layouts |-> << >>, loading |-> FALSE]
gmInitial == [selectedColumn |-> Null, groups |-> << >>, loading |-> FALSE]
lvInitial == [groups |-> << >>, locations |-> << >>, loading |-> FALSE,
              selectedLocation |-> Null]

\* A call in flight whose component has been unmounted: it runs on, and its
\* calls of the component's state setters change nothing.
unmount(call) == IF call.pc = "idle" THEN call ELSE [call EXCEPT !.alive = FALSE]

\* The loads in flight once the mounted component is unmounted.  A loadLayouts
\* still calls Index's setSelectedLayout; loadGroups and loadData call nothing
\* but setters of the unmounted component and are dropped.
unmountEffects ==
    [loadLayouts |-> {[r EXCEPT !.alive = FALSE] : r \in effects.loadLayouts},
     loadGroups |-> {}, loadData |-> {}]

\* Tabs onValueChange: the content of the old tab is unmounted and its state
\* lost; the content of the new tab is constructed and its effect runs.
switchTab(tab) ==
    /\ tab # activeTab
    /\ activeTab' = tab
    /\ wl' = wlInitial
    /\ gm' = gmInitial
    /\ cl' = unmount(cl) /\ dl' = unmount(dl) /\ cg' = unmount(cg)
    /\ dg' = unmount(dg) /\ tg' = unmount(tg) /\ tg2' = unmount(tg2) /\ cg2' = unmount(cg2)
    /\ IF tab = "layout"
       THEN /\ \E r \in readLayouts :
                 /\ counted(rejected(r))
                 /\ effects' = [unmountEffects EXCEPT !.loadLayouts =
                        @ \cup {[ok |-> r.ok, layouts |-> r.layouts,
                                 alive |-> TRUE]}]
            /\ lv' = lvInitial
       ELSE IF tab = "groups" /\ selectedLayout # Null /\ selectedLayout[1].id # 0
       THEN /\ \E g \in readGroups(selectedLayout[1].id) :
                 /\ counted(rejected(g))
                 /\ effects' = [unmountEffects EXCEPT !.loadGroups = @ \cup {g}]
            /\ lv' = lvInitial
       ELSE IF tab = "visualization" /\ selectedLayout # Null
                 /\ selectedLayout[1].id # 0
       THEN /\ \E d \in readData(selectedLayout[1].id) :
                 /\ counted(rejected(d))
                 /\ effects' = [unmountEffects EXCEPT !.loadData = @ \cup {d}]
            /\ lv' = [lvInitial EXCEPT !.loading = TRUE]
       ELSE /\ lv' = lvInitial
            /\ effects' = unmountEffects
            /\ UNCHANGED failures
    /\ UNCHANGED << store, selectedLayout, toggles, created >>

\* loadGroups, after its await (WarehouseLayout.tsx 494-499), called by the effect.
loadGroupsEffect ==
    /\ \E r \in effects.loadGroups :
         /\ effects' = [effects EXCEPT !.loadGroups = @ \ {r}]
         /\ gm' = IF r.ok THEN [gm EXCEPT !.groups = r.groups] ELSE gm
    /\ UNCHANGED << store, activeTab, selectedLayout, wl, lv, cl, dl, cg, cg2, dg, tg, tg2, toggles,
                    failures, created >>

\* loadData, after its await (LayoutVisualization.tsx 38-44).
loadDataEffect ==
    /\ \E r \in effects.loadData :
         /\ effects' = [effects EXCEPT !.loadData = @ \ {r}]
         /\ lv' = IF r.ok
                  THEN [lv EXCEPT !.groups = r.groups, !.locations = r.locations,
                                  !.loading = FALSE]
                  ELSE [lv EXCEPT !.loading = FALSE]
    /\ UNCHANGED << store, activeTab, selectedLayout, wl, gm, cl, dl, cg, cg2, dg, tg, tg2, toggles,
                    failures, created >>

\* --------------------------------------------------------- WarehouseLayout
\* loadLayouts after its await (lines 27-36): the list is replaced and the
\* first layout selected, or the failure is reported and nothing changes.
\* loading is the value the caller leaves in the loading flag.
loadLayoutsDone(r, alive, loading, eff) ==
    IF r.ok
    THEN /\ wl' = IF alive THEN [layouts |-> r.layouts, loading |-> loading]
                  ELSE wl
         /\ IF Len(r.layouts) > 0 /\ r.layouts[1].id # 0
            THEN setSelectedLayout(Some(r.layouts[1]), eff, 0)
            ELSE /\ effects' = eff
                 /\ UNCHANGED << selectedLayout, gm, lv, failures >>
    ELSE /\ wl' = IF alive THEN [wl EXCEPT !.loading = loading] ELSE wl
         /\ effects' = eff
         /\ UNCHANGED << selectedLayout, gm, lv, failures >>

\* The effect of WarehouseLayout's mount (lines 20-22): loadLayouts.
loadLayoutsEffect ==
    /\ \E r \in effects.loadLayouts :
         loadLayoutsDone(r, r.alive, wl.loading,
                         [effects EXCEPT !.loadLayouts = @ \ {r}])
    /\ UNCHANGED << store, activeTab, cl, dl, cg, cg2, dg, tg, tg2, toggles, created >>

\* Fault seeded for ValidationGuardsStore: rows and columns are not validated.
invalidLayoutNameOnly(form) == trim(form.name) = ""

\* The two validations of handleCreateLayout (lines 40-48): one of them fails.
invalidLayout(form) ==
    trim(form.name) = "" \/ form.rows < 1 \/ form.columns < 1

\* handleCreateLayout (lines 39-56) up to its first await: the two
\* validations, then createLayout, which resolves with the new id or rejects.
handleCreateLayout(form) ==
    /\ activeTab = "layout"
    /\ cl.pc = "idle" /\ ~wl.loading
    /\ IF invalidLayout(form)
       THEN UNCHANGED vars
       ELSE /\ spent < MaxOps
            /\ wl' = [wl EXCEPT !.loading = TRUE]
            /\ \/ \E now \in {clock, clock + 1} :
                    /\ resolves
                    /\ layouts' = createLayout(form, now)
                    /\ autoInc' = [autoInc EXCEPT !.layouts = @ + 1]
                    /\ clock' = now
                    /\ created' = Append(created, [id |-> autoInc.layouts] @@ form)
                    /\ cl' = [pc |-> "createLayout", alive |-> TRUE]
               \/ /\ rejects
                  /\ cl' = [pc |-> "catch", alive |-> TRUE]
                  /\ UNCHANGED << layouts, autoInc, clock, created >>
            /\ UNCHANGED << activeTab, groups, locations, selectedLayout, gm, lv, effects,
                            dl, cg, cg2, dg, tg, tg2, toggles >>

\* handleCreateLayout after createLayout resolved (lines 58-60): loadLayouts
\* is called and its getLayouts read issued.
createLayoutResolved ==
    /\ cl.pc = "createLayout"
    /\ \E r \in readLayouts :
         /\ counted(rejected(r))
         /\ cl' = [pc |-> "loadLayouts", alive |-> cl.alive, loaded |-> r]
    /\ UNCHANGED << store, activeTab, selectedLayout, wl, gm, lv, effects, dl, cg, cg2, dg, tg, tg2,
                    toggles, created >>

\* handleCreateLayout after loadLayouts returned (line 65).
createLayoutReloaded ==
    /\ cl.pc = "loadLayouts"
    /\ loadLayoutsDone(cl.loaded, cl.alive, FALSE, effects)
    /\ cl' = idle
    /\ UNCHANGED << store, activeTab, dl, cg, cg2, dg, tg, tg2, toggles, created >>

\* handleCreateLayout after createLayout rejected (lines 61-65).
createLayoutRejected ==
    /\ cl.pc = "catch"
    /\ wl' = IF cl.alive THEN [wl EXCEPT !.loading = FALSE] ELSE wl
    /\ cl' = idle
    /\ UNCHANGED << store, activeTab, selectedLayout, gm, lv, effects, dl, cg, cg2, dg, tg, tg2,
                    toggles, failures, created >>

\* handleSelectLayout (lines 83-86), from the "Selecionar" button of a listed layout.
handleSelectLayout(layout) ==
    /\ activeTab = "layout"
    /\ setSelectedLayout(Some(layout), effects, 0)
    /\ UNCHANGED << store, activeTab, wl, cl, dl, cg, cg2, dg, tg, tg2, toggles, created >>

\* ------------------------------------------------ data access: deleteLayout
\* Fault seeded for DeleteGroupFrame: the locations are deleted by the
\* layout of the group instead of by the group.
deleteLocationsOfGroupLayout(groupId) ==
    {l \in locations :
        \A g \in groups : g.id = groupId => g.layoutId # l.layoutId}

\* Line 87 for one group: db.locations.where({groupId}).delete().
deleteLocationsOfGroup(groupId) == locations \ whereGroupId(locations, groupId)

\* Fault seeded for DeleteLayoutCascades: the groups are deleted by primary
\* key instead of by layoutId.
deleteGroupsOfLayoutByKey(id) == {g \in groups : g.id # id}

\* Line 91: db.groups.where({layoutId: id}).delete().
deleteGroupsOfLayout(id) == groups \ whereLayoutId(groups, id)

\* handleDeleteLayout (lines 68-71) up to the first await of deleteLayout
\* (database.ts 84): the groups of the layout are read.
handleDeleteLayout(id, confirm) ==
    /\ activeTab = "layout"
    /\ dl.pc = "idle"
    /\ IF ~confirm
       THEN UNCHANGED vars
       ELSE /\ \/ /\ resolves
                  /\ dl' = [pc |-> "getGroups", alive |-> TRUE, id |-> id,
                            groups |-> getGroupsByLayoutId(id),
                            groupsBefore |-> groups,
                            locationsBefore |-> locations]
               \/ /\ rejects
                  /\ dl' = [pc |-> "catch", alive |-> TRUE]
            /\ UNCHANGED << store, activeTab, selectedLayout, wl, gm, lv, effects, cl, cg, cg2,
                            dg, tg, tg2, toggles, created >>

\* Fault seeded for DeleteLayoutChildFirst: the groups of the layout are
\* deleted before the loop over their locations.
deleteLayoutLoopParentFirst ==
    /\ dl.pc = "getGroups"
    /\ resolves
    /\ IF whereLayoutId(groups, dl.id) # {}
       THEN /\ groups' = deleteGroupsOfLayout(dl.id)
            /\ UNCHANGED << locations, dl >>
       ELSE IF dl.groups # << >>
       THEN /\ locations' = deleteLocationsOfGroup(Head(dl.groups).id)
            /\ dl' = [dl EXCEPT !.groups = Tail(@)]
            /\ UNCHANGED groups
       ELSE /\ dl' = [dl EXCEPT !.pc = "deleteGroups"]
            /\ UNCHANGED << groups, locations >>
    /\ UNCHANGED << activeTab, layouts, autoInc, clock, selectedLayout, wl, gm, lv, effects,
                    cl, cg, cg2, dg, tg, tg2, toggles, created >>

\* deleteLayout lines 85-91: the loop deletes the locations of the next group
\* that was read; after the last one the groups of the layout are deleted.
deleteLayoutLoop ==
    /\ dl.pc = "getGroups"
    /\ IF dl.groups # << >>
       THEN /\ \/ /\ resolves
                  /\ locations' = IF Head(dl.groups).id # 0
                                  THEN deleteLocationsOfGroup(Head(dl.groups).id)
                                  ELSE locations
                  /\ dl' = [dl EXCEPT !.groups = Tail(@)]
               \/ /\ rejects
                  /\ dl' = [pc |-> "catch", alive |-> dl.alive]
                  /\ UNCHANGED locations
            /\ UNCHANGED groups
       ELSE /\ \/ /\ resolves
                  /\ groups' = deleteGroupsOfLayout(dl.id)
                  /\ dl' = [dl EXCEPT !.pc = "deleteGroups"]
               \/ /\ rejects
                  /\ dl' = [pc |-> "catch", alive |-> dl.alive]
                  /\ UNCHANGED groups
            /\ UNCHANGED locations
    /\ UNCHANGED << activeTab, layouts, autoInc, clock, selectedLayout, wl, gm, lv, effects,
                    cl, cg, cg2, dg, tg, tg2, toggles, created >>

\* The history without the calls that returned id.
RECURSIVE forget(_, _)
forget(history, id) ==
    IF history = << >> THEN << >>
    ELSE IF Head(history).id = id THEN forget(Tail(history), id)
    ELSE << Head(history) >> \o forget(Tail(history), id)

\* deleteLayout line 92: db.layouts.delete(id).
deleteLayoutRow ==
    /\ dl.pc = "deleteGroups"
    /\ \/ /\ resolves
          /\ layouts' = delete(layouts, dl.id)
          /\ created' = forget(created, dl.id)
          /\ dl' = [dl EXCEPT !.pc = "deleteLayout"]
       \/ /\ rejects
          /\ dl' = [pc |-> "catch", alive |-> dl.alive]
          /\ UNCHANGED << layouts, created >>
    /\ UNCHANGED << activeTab, groups, locations, autoInc, clock, selectedLayout, wl, gm, lv,
                    effects, cl, cg, cg2, dg, tg, tg2, toggles >>

\* handleDeleteLayout after deleteLayout resolved (lines 72-75): the selection
\* is reset and loadLayouts called.
deleteLayoutResolved ==
    /\ dl.pc = "deleteLayout"
    /\ \E r \in readLayouts :
         /\ setSelectedLayout(Null, effects, rejected(r))
         /\ dl' = [pc |-> "loadLayouts", alive |-> dl.alive, loaded |-> r]
    /\ UNCHANGED << store, activeTab, wl, cl, cg, cg2, dg, tg, tg2, toggles, created >>

\* handleDeleteLayout after loadLayouts returned.
deleteLayoutReloaded ==
    /\ dl.pc = "loadLayouts"
    /\ loadLayoutsDone(dl.loaded, dl.alive, wl.loading, effects)
    /\ dl' = idle
    /\ UNCHANGED << store, activeTab, cl, cg, cg2, dg, tg, tg2, toggles, created >>

\* handleDeleteLayout after deleteLayout rejected (lines 76-79).
deleteLayoutRejected ==
    /\ dl.pc = "catch"
    /\ dl' = idle
    /\ UNCHANGED << store, activeTab, selectedLayout, wl, gm, lv, effects, cl, cg, cg2, dg, tg, tg2,
                    toggles, failures, created >>

\* --------------------------------------------------------- GroupManagement
\* The column Select (lines 635-649): one item per column of the selected layout.
selectColumn(column) ==
    /\ activeTab = "groups" /\ selectedLayout # Null
    /\ column \in 1..selectedLayout[1].columns
    /\ gm' = [gm EXCEPT !.selectedColumn = Some(column)]
    /\ UNCHANGED << store, activeTab, selectedLayout, wl, lv, effects, cl, dl, cg, cg2, dg, tg, tg2,
                    toggles, failures, created >>

\* handleSelectGroup (lines 591-597), from a click on a listed group.  The
\* name, rows and columns it copies into the form are form inputs (GroupForms);
\* selectedGroup is read by the list's highlighting only and is not kept.
handleSelectGroup(group) ==
    /\ activeTab = "groups" /\ selectedLayout # Null
    /\ gm' = [gm EXCEPT !.selectedColumn = Some(group.column)]
    /\ UNCHANGED << store, activeTab, selectedLayout, wl, lv, effects, cl, dl, cg, cg2, dg, tg, tg2,
                    toggles, failures, created >>

\* createGroup: the table after db.groups.add({...group, createdAt}).
\* Fault seeded for GroupsMatchNoCell: the stored group is given row 1.
createGroupWithRow(group, createdAt) ==
    add(groups, group @@ [createdAt |-> createdAt, row |-> 1], autoInc.groups)

createGroup(group, createdAt) ==
    add(groups, group @@ [createdAt |-> createdAt], autoInc.groups)

\* Fault seeded for LayoutIdConsistent: the group's id is stored as layoutId.
createLocationUnderGroupId(location) ==
    add(locations, [location EXCEPT !.layoutId = location.groupId],
        autoInc.locations)

\* createLocation: the table after db.locations.add(location).
createLocation(location) == add(locations, location, autoInc.locations)

\* A number | null operand of a comparison: null counts as 0.
toNumber(value) == IF value = Null THEN 0 ELSE value[1]

\* Fault seeded for ColumnInRange: the selected column is not validated.
invalidGroupColumnUnchecked(form) ==
    \/ selectedLayout = Null
    \/ selectedLayout[1].id = 0
    \/ trim(form.name) = ""
    \/ form.rows < 1 \/ form.columns < 1

\* The five validations of handleCreateGroup (lines 503-526): one of them fails.
invalidGroup(form) ==
    \/ selectedLayout = Null
    \/ selectedLayout[1].id = 0
    \/ trim(form.name) = ""
    \/ gm.selectedColumn = Null
    \/ form.rows < 1 \/ form.columns < 1
    \/ toNumber(gm.selectedColumn) > selectedLayout[1].columns

\* handleCreateGroup (lines 502-536) up to its first await: the five
\* validations, then createGroup, which resolves with the new id or rejects.
handleCreateGroup(form) ==
    /\ activeTab = "groups"
    /\ cg.pc = "idle" /\ ~gm.loading
    /\ IF invalidGroup(form)
       THEN UNCHANGED vars
       ELSE /\ spent < MaxOps
            /\ gm' = [gm EXCEPT !.loading = TRUE]
            /\ \/ /\ resolves
                  /\ groups' = createGroup(
                                  [name |-> form.name,
                                   layoutId |-> selectedLayout[1].id,
                                   column |-> toNumber(gm.selectedColumn),
                                   rows |-> form.rows,
                                   columns |-> form.columns], clock)
                  /\ autoInc' = [autoInc EXCEPT !.groups = @ + 1]
                  /\ cg' = [pc |-> "createLocation", alive |-> TRUE, form |-> form,
                            layout |-> selectedLayout[1],
                            groupId |-> autoInc.groups, row |-> 0, col |-> 0]
               \/ /\ rejects
                  /\ cg' = [pc |-> "catch", alive |-> TRUE]
                  /\ UNCHANGED << groups, autoInc >>
            /\ UNCHANGED << activeTab, layouts, locations, clock, selectedLayout, wl, lv,
                            effects, cl, dl, cg2, dg, tg, tg2, toggles, created >>

\* Fault seeded for GroupCreationFillsGrid: the column counter is not reset
\* at the end of a row.
nextCellNoReset(call) ==
    IF call.col + 1 < call.form.columns
    THEN [call EXCEPT !.col = @ + 1]
    ELSE [call EXCEPT !.row = @ + 1]

\* Fault seeded for OneLocationPerCellNoFailure: the loop ends a row one
\* column early.
nextCellShortRow(call) ==
    IF call.col + 2 < call.form.columns
    THEN [call EXCEPT !.col = @ + 1]
    ELSE [call EXCEPT !.row = @ + 1, !.col = 0]

\* Fault seeded for CreationInProgramOrder: the cells are visited column by
\* column.
nextCellColumnMajor(call) ==
    IF call.row + 1 < call.form.rows
    THEN [call EXCEPT !.row = @ + 1]
    ELSE IF call.col + 1 < call.form.columns
    THEN [call EXCEPT !.row = 0, !.col = @ + 1]
    ELSE [call EXCEPT !.row = call.form.rows, !.col = 0]

\* The loop counters after one pass of the inner loop (lines 539-540): the
\* next column, or the first column of the next row.
nextCell(call) ==
    IF call.col + 1 < call.form.columns
    THEN [call EXCEPT !.col = @ + 1]
    ELSE [call EXCEPT !.row = @ + 1, !.col = 0]

\* The creation loop (lines 539-567): the next cell's address is built and
\* createLocation awaited; after the last cell loadGroups is called.
createLocations ==
    /\ cg.pc = "createLocation"
    /\ IF cg.row < cg.form.rows
       THEN /\ \/ /\ resolves
                  /\ locations' = createLocation(
                                     [groupId |-> cg.groupId,
                                      layoutId |-> cg.layout.id,
                                      row |-> cg.row,
                                      column |-> cg.col,
                                      address |-> makeAddress(cg.form.addressFormat,
                                                     cg.form.name, cg.row, cg.col),
                                      isOccupied |-> FALSE])
                  /\ autoInc' = [autoInc EXCEPT !.locations = @ + 1]
                  /\ cg' = nextCell(cg)
               \/ /\ rejects
                  /\ cg' = [pc |-> "catch", alive |-> cg.alive]
                  /\ UNCHANGED << locations, autoInc >>
       ELSE /\ \E r \in readGroups(cg.layout.id) :
                 /\ counted(rejected(r))
                 /\ cg' = [pc |-> "loadGroups", alive |-> cg.alive, loaded |-> r,
                           groupId |-> cg.groupId, form |-> cg.form]
            /\ UNCHANGED << locations, autoInc >>
    /\ UNCHANGED << activeTab, layouts, groups, clock, selectedLayout, wl, gm, lv, effects,
                    cl, dl, cg2, dg, tg, tg2, toggles, created >>

\* handleCreateGroup after loadGroups returned (line 572).
createGroupReloaded ==
    /\ cg.pc = "loadGroups"
    /\ gm' = IF cg.alive
             THEN [gm EXCEPT
                     !.groups = IF cg.loaded.ok THEN cg.loaded.groups ELSE @,
                     !.loading = FALSE]
             ELSE gm
    /\ cg' = idle
    /\ UNCHANGED << store, activeTab, selectedLayout, wl, lv, effects, cl, dl, cg2, dg, tg, tg2,
                    toggles, failures, created >>

\* Fault seeded for FailureLeavesPartialGroup: the catch block removes the
\* newest group and its locations.
createGroupRejectedRollingBack ==
    /\ cg.pc = "catch"
    /\ groups' = delete(groups, autoInc.groups - 1)
    /\ locations' = locations \ whereGroupId(locations, autoInc.groups - 1)
    /\ gm' = IF cg.alive THEN [gm EXCEPT !.loading = FALSE] ELSE gm
    /\ cg' = idle
    /\ UNCHANGED << layouts, autoInc, clock, activeTab, selectedLayout, wl, lv, effects,
                    cl, dl, cg2, dg, tg, tg2, toggles, failures, created >>

\* handleCreateGroup after createGroup or createLocation rejected (lines
\* 568-572): the failure notice is shown and the loading flag reset.
createGroupRejected ==
    /\ cg.pc = "catch"
    /\ gm' = IF cg.alive THEN [gm EXCEPT !.loading = FALSE] ELSE gm
    /\ cg' = idle
    /\ UNCHANGED << store, activeTab, selectedLayout, wl, lv, effects, cl, dl, cg2, dg, tg, tg2,
                    toggles, failures, created >>

\* handleCreateGroup invoked in a GroupManagement mounted while an invocation
\* of the component unmounted before it is still running: the new
\* component's loading flag is false (line 479) and its button enabled
\* (lines 695-701).
handleCreateGroupAgain(form) ==
    /\ activeTab = "groups"
    /\ cg.pc # "idle" /\ cg2.pc = "idle" /\ ~gm.loading
    /\ IF invalidGroup(form)
       THEN UNCHANGED vars
       ELSE /\ spent < MaxOps
            /\ gm' = [gm EXCEPT !.loading = TRUE]
            /\ \/ /\ resolves
                  /\ groups' = createGroup(
                                  [name |-> form.name,
                                   layoutId |-> selectedLayout[1].id,
                                   column |-> toNumber(gm.selectedColumn),
                                   rows |-> form.rows,
                                   columns |-> form.columns], clock)
                  /\ autoInc' = [autoInc EXCEPT !.groups = @ + 1]
                  /\ cg2' = [pc |-> "createLocation", alive |-> TRUE, form |-> form,
                             layout |-> selectedLayout[1],
                             groupId |-> autoInc.groups, row |-> 0, col |-> 0]
               \/ /\ rejects
                  /\ cg2' = [pc |-> "catch", alive |-> TRUE]
                  /\ UNCHANGED << groups, autoInc >>
            /\ UNCHANGED << activeTab, layouts, locations, clock, selectedLayout, wl, lv,
                            effects, cl, dl, cg, dg, tg, tg2, toggles, created >>

\* The creation loop of the second invocation (lines 539-567).
createLocationsAgain ==
    /\ cg2.pc = "createLocation"
    /\ IF cg2.row < cg2.form.rows
       THEN /\ \/ /\ resolves
                  /\ locations' = createLocation(
                                     [groupId |-> cg2.groupId,
                                      layoutId |-> cg2.layout.id,
                                      row |-> cg2.row,
                                      column |-> cg2.col,
                                      address |-> makeAddress(cg2.form.addressFormat,
                                                     cg2.form.name, cg2.row, cg2.col),
                                      isOccupied |-> FALSE])
                  /\ autoInc' = [autoInc EXCEPT !.locations = @ + 1]
                  /\ cg2' = nextCell(cg2)
               \/ /\ rejects
                  /\ cg2' = [pc |-> "catch", alive |-> cg2.alive]
                  /\ UNCHANGED << locations, autoInc >>
       ELSE /\ \E r \in readGroups(cg2.layout.id) :
                 /\ counted(rejected(r))
                 /\ cg2' = [pc |-> "loadGroups", alive |-> cg2.alive, loaded |-> r,
                            groupId |-> cg2.groupId, form |-> cg2.form]
            /\ UNCHANGED << locations, autoInc >>
    /\ UNCHANGED << activeTab, layouts, groups, clock, selectedLayout, wl, gm, lv, effects,
                    cl, dl, cg, dg, tg, tg2, toggles, created >>

\* The second invocation after loadGroups returned (line 572).
createGroupAgainReloaded ==
    /\ cg2.pc = "loadGroups"
    /\ gm' = IF cg2.alive
             THEN [gm EXCEPT
                     !.groups = IF cg2.loaded.ok THEN cg2.loaded.groups ELSE @,
                     !.loading = FALSE]
             ELSE gm
    /\ cg2' = idle
    /\ UNCHANGED << store, activeTab, selectedLayout, wl, lv, effects, cl, dl, cg, dg, tg,
                    tg2, toggles, failures, created >>

\* The second invocation after createGroup or createLocation rejected
\* (lines 568-572).
createGroupAgainRejected ==
    /\ cg2.pc = "catch"
    /\ gm' = IF cg2.alive THEN [gm EXCEPT !.loading = FALSE] ELSE gm
    /\ cg2' = idle
    /\ UNCHANGED << store, activeTab, selectedLayout, wl, lv, effects, cl, dl, cg, dg, tg,
                    tg2, toggles, failures, created >>

\* handleDeleteGroup (lines 575-578) up to the first await of deleteGroup
\* (database.ts 109): the locations of the group are deleted.
handleDeleteGroup(id, confirm) ==
    /\ activeTab = "groups" /\ selectedLayout # Null
    /\ dg.pc = "idle"
    /\ IF ~confirm
       THEN UNCHANGED vars
       ELSE /\ \/ /\ resolves
                  /\ locations' = deleteLocationsOfGroup(id)
                  /\ dg' = [pc |-> "deleteLocations", alive |-> TRUE, id |-> id,
                            layout |-> selectedLayout,
                            groupsBefore |-> groups,
                            locationsBefore |-> locations]
               \/ /\ rejects
                  /\ dg' = [pc |-> "catch", alive |-> TRUE]
                  /\ UNCHANGED locations
            /\ UNCHANGED << activeTab, layouts, groups, autoInc, clock, selectedLayout, wl,
                            gm, lv, effects, cl, dl, cg, cg2, tg, tg2, toggles, created >>

\* deleteGroup line 110: db.groups.delete(id).
deleteGroupRow ==
    /\ dg.pc = "deleteLocations"
    /\ \/ /\ resolves
          /\ groups' = delete(groups, dg.id)
          /\ dg' = [dg EXCEPT !.pc = "deleteGroup"]
       \/ /\ rejects
          /\ dg' = [pc |-> "catch", alive |-> dg.alive]
          /\ UNCHANGED groups
    /\ UNCHANGED << activeTab, layouts, locations, autoInc, clock, selectedLayout, wl, gm,
                    lv, effects, cl, dl, cg, cg2, tg, tg2, toggles, created >>

\* handleDeleteGroup after deleteGroup resolved (lines 579-583).
deleteGroupResolved ==
    /\ dg.pc = "deleteGroup"
    /\ IF dg.layout # Null /\ dg.layout[1].id # 0
       THEN \E r \in readGroups(dg.layout[1].id) :
               /\ counted(rejected(r))
               /\ dg' = [pc |-> "loadGroups", alive |-> dg.alive, loaded |-> r]
       ELSE dg' = idle /\ UNCHANGED failures
    /\ UNCHANGED << store, activeTab, selectedLayout, wl, gm, lv, effects, cl, dl, cg, cg2, tg, tg2,
                    toggles, created >>

\* handleDeleteGroup after loadGroups returned.
deleteGroupReloaded ==
    /\ dg.pc = "loadGroups"
    /\ gm' = IF dg.alive /\ dg.loaded.ok
             THEN [gm EXCEPT !.groups = dg.loaded.groups]
             ELSE gm
    /\ dg' = idle
    /\ UNCHANGED << store, activeTab, selectedLayout, wl, lv, effects, cl, dl, cg, cg2, tg, tg2,
                    toggles, failures, created >>

\* handleDeleteGroup after deleteGroup rejected (lines 584-587).
deleteGroupRejected ==
    /\ dg.pc = "catch"
    /\ dg' = idle
    /\ UNCHANGED << store, activeTab, selectedLayout, wl, gm, lv, effects, cl, dl, cg, cg2, tg, tg2,
                    toggles, failures, created >>

\* ----------------------------------------------------- LayoutVisualization
\* Fault seeded for OnlyOccupancyMutates: the update also moves the location
\* to row 1.
updateLocationMovingRow(id, changes) ==
    update(locations, id, changes @@ [row |-> 1])

\* updateLocation: the table after db.locations.update(id, changes).
updateLocation(id, changes) == update(locations, id, changes)

\* The property read g.row (line 106): undefined when the record has no row.
rowOf(g) == IF "row" \in DOMAIN g THEN Some(g.row) ELSE Null

\* groups.find(g => g.row === rowIndex + 1 && g.column === colIndex + 1)
\* (line 106): the first loaded group matching the cell, or undefined.
groupAt(rowIndex, colIndex) ==
    LET matching == SelectSeq(lv.groups,
                        LAMBDA g : /\ rowOf(g) = Some(rowIndex + 1)
                                   /\ g.column = colIndex + 1)
    IN  IF matching = << >> THEN Null ELSE Some(Head(matching))

\* locations.filter(loc => loc.groupId === group.id) (line 107), and in the
\* matched group's inner grid groupLocations.find(loc => loc.row ===
\* groupRowIndex && loc.column === groupColIndex) (lines 129-131).
locationsInCell(rowIndex, colIndex) ==
    LET group == groupAt(rowIndex, colIndex)
    IN  IF group = Null THEN {}
        ELSE LET groupLocations == SelectSeq(lv.locations,
                                       LAMBDA loc : loc.groupId = group[1].id)
                 found(r, c) == SelectSeq(groupLocations,
                                   LAMBDA loc : loc.row = r /\ loc.column = c)
             IN  { Head(found(r, c)) :
                     <<r, c>> \in { rc \in (0 .. group[1].rows - 1)
                                             \X (0 .. group[1].columns - 1) :
                                       found(rc[1], rc[2]) # << >> } }

\* The grid of lines 99-163: nothing without a selected layout (line 71),
\* a spinner while loading (line 94), else one cell per row and column of
\* the selected layout.
renderedLocations ==
    IF selectedLayout = Null \/ lv.loading THEN {}
    ELSE UNION { locationsInCell(rowIndex, colIndex) :
                   <<rowIndex, colIndex>> \in (0 .. selectedLayout[1].rows - 1)
                                           \X (0 .. selectedLayout[1].columns - 1) }

\* handleLocationClick (lines 47-49), with a location of the loaded list.
\* The handler is taken with any loaded location: the rendering that would
\* offer it for a click is renderedLocations, and GroupsMatchNoCell states
\* what that rendering shows.
handleLocationClick(location) ==
    /\ activeTab = "visualization"
    /\ selectedLayout # Null /\ ~lv.loading
    /\ lv' = [lv EXCEPT !.selectedLocation = Some(location)]
    /\ UNCHANGED << store, activeTab, selectedLayout, wl, gm, effects, cl, dl, cg, cg2, dg, tg, tg2,
                    toggles, failures, created >>

\* "Limpar Selecao" (line 198): setSelectedLocation(null).
clearSelection ==
    /\ activeTab = "visualization"
    /\ selectedLayout # Null /\ lv.selectedLocation # Null
    /\ lv' = [lv EXCEPT !.selectedLocation = Null]
    /\ UNCHANGED << store, activeTab, selectedLayout, wl, gm, effects, cl, dl, cg, cg2, dg, tg, tg2,
                    toggles, failures, created >>

\* toggleOccupancy (lines 51-56) up to its await: updateLocation with the
\* negation of the selected location's flag.
toggleOccupancy ==
    /\ activeTab = "visualization"
    /\ tg.pc = "idle"
    /\ selectedLayout # Null /\ lv.selectedLocation # Null
    /\ lv.selectedLocation[1].id # 0
    /\ spent < MaxOps
    /\ LET selectedLocation == lv.selectedLocation[1]
           newIsOccupied == ~selectedLocation.isOccupied
       IN  \/ /\ resolves
              /\ toggles' = toggles + 1
              /\ locations' = updateLocation(selectedLocation.id,
                                             [isOccupied |-> newIsOccupied])
              /\ tg' = [pc |-> "updateLocation", alive |-> TRUE,
                        selectedLocation |-> selectedLocation,
                        locations |-> lv.locations,
                        newIsOccupied |-> newIsOccupied,
                        locationsBefore |-> locations]
           \/ /\ rejects
              /\ tg' = [pc |-> "catch", alive |-> TRUE]
              /\ UNCHANGED << locations, toggles >>
    /\ UNCHANGED << activeTab, layouts, groups, autoInc, clock, selectedLayout, wl, gm, lv,
                    effects, cl, dl, cg, cg2, dg, tg2, created >>

\* toggleOccupancy after updateLocation resolved (lines 58-64).
toggleOccupancyResolved ==
    /\ tg.pc = "updateLocation"
    /\ lv' = IF ~tg.alive THEN lv ELSE
             [lv EXCEPT
                !.locations =
                    [i \in 1..Len(tg.locations) |->
                        IF tg.locations[i].id = tg.selectedLocation.id
                        THEN [tg.locations[i] EXCEPT !.isOccupied = tg.newIsOccupied]
                        ELSE tg.locations[i]],
                !.selectedLocation =
                    Some([tg.selectedLocation EXCEPT !.isOccupied = tg.newIsOccupied])]
    /\ tg' = idle
    /\ UNCHANGED << store, activeTab, selectedLayout, wl, gm, effects, cl, dl, cg, cg2, dg,
                    tg2, toggles, failures, created >>

\* toggleOccupancy after updateLocation rejected (lines 65-68).
toggleOccupancyRejected ==
    /\ tg.pc = "catch"
    /\ tg' = idle
    /\ UNCHANGED << store, activeTab, selectedLayout, wl, gm, lv, effects, cl, dl, cg, cg2, dg,
                    tg2, toggles, failures, created >>

\* toggleOccupancy (lines 51-56) invoked again while an invocation is at its
\* await: the button (lines 189-195) is not disabled meanwhile, and the
\* selected location read is the one of the last render. The invocation is
\* bounded by its slot and not counted against MaxOps.
toggleOccupancyAgain ==
    /\ activeTab = "visualization"
    /\ tg.pc # "idle" /\ tg2.pc = "idle"
    /\ selectedLayout # Null /\ lv.selectedLocation # Null
    /\ lv.selectedLocation[1].id # 0
    /\ LET selectedLocation == lv.selectedLocation[1]
           newIsOccupied == ~selectedLocation.isOccupied
       IN  \/ /\ locations' = updateLocation(selectedLocation.id,
                                             [isOccupied |-> newIsOccupied])
              /\ tg2' = [pc |-> "updateLocation", alive |-> TRUE,
                         selectedLocation |-> selectedLocation,
                         locations |-> lv.locations,
                         newIsOccupied |-> newIsOccupied,
                         locationsBefore |-> locations]
           \/ /\ tg2' = [pc |-> "catch", alive |-> TRUE]
              /\ UNCHANGED locations
    /\ UNCHANGED << activeTab, layouts, groups, autoInc, clock, selectedLayout, wl, gm, lv,
                    effects, cl, dl, cg, cg2, dg, tg, toggles, failures, created >>

\* The second invocation after updateLocation resolved (lines 58-64).
toggleOccupancyAgainResolved ==
    /\ tg2.pc = "updateLocation"
    /\ lv' = IF ~tg2.alive THEN lv ELSE
             [lv EXCEPT
                !.locations =
                    [i \in 1..Len(tg2.locations) |->
                        IF tg2.locations[i].id = tg2.selectedLocation.id
                        THEN [tg2.locations[i] EXCEPT !.isOccupied = tg2.newIsOccupied]
                        ELSE tg2.locations[i]],
                !.selectedLocation =
                    Some([tg2.selectedLocation EXCEPT !.isOccupied = tg2.newIsOccupied])]
    /\ tg2' = idle
    /\ UNCHANGED << store, activeTab, selectedLayout, wl, gm, effects, cl, dl, cg, cg2, dg,
                    tg, toggles, failures, created >>

\* The second invocation after updateLocation rejected (lines 65-68).
toggleOccupancyAgainRejected ==
    /\ tg2.pc = "catch"
    /\ tg2' = idle
    /\ UNCHANGED << store, activeTab, selectedLayout, wl, gm, lv, effects, cl, dl, cg, cg2, dg,
                    tg, toggles, failures, created >>

\* ------------------------------------------------------------ specification
\* The elements of a sequence.
Range(s) == {s[i] : i \in 1..Len(s)}

\* The user's clicks and selections, made when nothing is in flight: the
\* single-writer usage of the store.
User ==
    \/ \E tab \in {"layout", "groups", "visualization"} :
          Quiescent /\ switchTab(tab)
    \/ \E form \in LayoutForms :
          Quiescent /\ handleCreateLayout(form)
    \/ \E layout \in Range(wl.layouts), confirm \in BOOLEAN :
          Quiescent /\ layout.id # 0 /\ handleDeleteLayout(layout.id, confirm)
    \/ \E layout \in Range(wl.layouts) :
          Quiescent /\ handleSelectLayout(layout)
    \/ \E column \in {1, 2} :
          Quiescent /\ selectColumn(column)
    \/ \E group \in Range(gm.groups) :
          Quiescent /\ handleSelectGroup(group)
    \/ \E form \in GroupForms :
          Quiescent /\ handleCreateGroup(form)
    \/ \E group \in Range(gm.groups), confirm \in BOOLEAN :
          Quiescent /\ group.id # 0 /\ handleDeleteGroup(group.id, confirm)
    \/ \E location \in Range(lv.locations) :
          Quiescent /\ handleLocationClick(location)
    \/ Quiescent /\ clearSelection
    \/ Quiescent /\ toggleOccupancy

\* A handler or effect in flight runs to its next await.
Continue ==
    \/ loadLayoutsEffect
    \/ loadGroupsEffect
    \/ loadDataEffect
    \/ createLayoutResolved
    \/ createLayoutReloaded
    \/ createLayoutRejected
    \/ deleteLayoutLoop
    \/ deleteLayoutRow
    \/ deleteLayoutResolved
    \/ deleteLayoutReloaded
    \/ deleteLayoutRejected
    \/ createLocations
    \/ createGroupReloaded
    \/ createGroupRejected
    \/ deleteGroupRow
    \/ deleteGroupResolved
    \/ deleteGroupReloaded
    \/ deleteGroupRejected
    \/ toggleOccupancyResolved
    \/ toggleOccupancyRejected

Next == User \/ Continue

Spec == Init /\ [][Next]_vars

\* ------------------------------------------------- overlapping operations
\* A state of the sequential use: layout "A" of 1 x 2 cells was created, the
\* 1 x 2 group "A" created in its column 2, and the layout tab opened again
\* and loaded.
InitAsync ==
    LET layout == [id |-> 1, name |-> "A", rows |-> 1, columns |-> 2,
                   createdAt |-> 0]
        cell(id, col) ==
            [id |-> id, groupId |-> 1, layoutId |-> 1, row |-> 0,
             column |-> col, address |-> makeAddress("ROW-COL", "A", 0, col),
             isOccupied |-> FALSE]
    IN  /\ layouts = {layout}
        /\ groups = {[id |-> 1, name |-> "A", layoutId |-> 1, column |-> 2,
                      rows |-> 1, columns |-> 2, createdAt |-> 0]}
        /\ locations = {cell(1, 0), cell(2, 1)}
        /\ autoInc = [layouts |-> 2, groups |-> 2, locations |-> 3]
        /\ clock = 0
        /\ selectedLayout = Some(layout)
        /\ activeTab = "layout"
        /\ wl = [layouts |-> << layout >>, loading |-> FALSE]
        /\ gm = gmInitial
        /\ lv = lvInitial
        /\ effects = [loadLayouts |-> {}, loadGroups |-> {}, loadData |-> {}]
        /\ cl = idle /\ dl = idle /\ cg = idle /\ dg = idle /\ tg = idle /\ tg2 = idle /\ cg2 = idle
        /\ toggles = 0
        /\ failures = 0
        /\ created = << [id |-> 1, name |-> "A", rows |-> 1, columns |-> 2] >>

\* The number of handler calls in flight.
busy(call) == IF call.pc = "idle" THEN 0 ELSE 1
inFlight == busy(cl) + busy(dl) + busy(cg) + busy(dg) + busy(tg) + busy(tg2) + busy(cg2)

\* The user acts while at most one handler call is in flight, and leaves a
\* tab only if no call in flight has been left behind already.
overlapping == inFlight <= 1
leaving ==
    /\ overlapping
    /\ \A call \in {cl, dl, cg, cg2, dg, tg, tg2} : call.pc # "idle" => call.alive
    /\ \A r \in effects.loadLayouts : r.alive

\* The user's clicks and selections, also while a handler or an effect is
\* between two awaits.
Async ==
    \/ \E tab \in {"layout", "groups", "visualization"} :
          leaving /\ switchTab(tab)
    \/ \E form \in LayoutForms :
          overlapping /\ handleCreateLayout(form)
    \/ \E layout \in Range(wl.layouts), confirm \in BOOLEAN :
          overlapping /\ layout.id # 0 /\ handleDeleteLayout(layout.id, confirm)
    \/ \E layout \in Range(wl.layouts) :
          overlapping /\ handleSelectLayout(layout)
    \/ \E column \in {1, 2} :
          overlapping /\ selectColumn(column)
    \/ \E group \in Range(gm.groups) :
          overlapping /\ handleSelectGroup(group)
    \/ \E form \in GroupForms :
          overlapping /\ handleCreateGroup(form)
    \/ \E group \in Range(gm.groups), confirm \in BOOLEAN :
          overlapping /\ group.id # 0 /\ handleDeleteGroup(group.id, confirm)
    \/ \E location \in Range(lv.locations) :
          overlapping /\ handleLocationClick(location)
    \/ overlapping /\ clearSelection
    \/ overlapping /\ toggleOccupancy
    \/ overlapping /\ toggleOccupancyAgain

\* The steps of a second toggleOccupancy invocation after its await.
ContinueAgain ==
    \/ toggleOccupancyAgainResolved
    \/ toggleOccupancyAgainRejected

NextAsync == Async \/ Continue \/ ContinueAgain

SpecAsync == InitAsync /\ [][NextAsync]_vars

\* ------------------------------------------- specification: a tab revisited
\* A layout has been created and is listed and selected; no group is stored.
InitReturn ==
    LET layout == [id |-> 1, name |-> "A", rows |-> 1, columns |-> 2,
                   createdAt |-> 0]
    IN  /\ layouts = {layout}
        /\ groups = {} /\ locations = {}
        /\ autoInc = [layouts |-> 2, groups |-> 1, locations |-> 1]
        /\ clock = 0
        /\ selectedLayout = Some(layout)
        /\ activeTab = "layout"
        /\ wl = [layouts |-> << layout >>, loading |-> FALSE]
        /\ gm = gmInitial
        /\ lv = lvInitial
        /\ effects = [loadLayouts |-> {}, loadGroups |-> {}, loadData |-> {}]
        /\ cl = idle /\ dl = idle /\ cg = idle /\ dg = idle /\ tg = idle /\ tg2 = idle /\ cg2 = idle
        /\ toggles = 0
        /\ failures = 0
        /\ created = << [id |-> 1, name |-> "A", rows |-> 1, columns |-> 2] >>

\* The user moves between the layout tab and the groups tab and creates
\* groups, also while a creation is between two awaits.
Return ==
    \/ \E tab \in {"layout", "groups"} : switchTab(tab)
    \/ \E column \in {1, 2} : selectColumn(column)
    \/ \E form \in GroupForms : handleCreateGroup(form)
    \/ \E form \in GroupForms : handleCreateGroupAgain(form)

ContinueReturn ==
    \/ loadLayoutsEffect
    \/ loadGroupsEffect
    \/ createLocations
    \/ createGroupReloaded
    \/ createGroupRejected
    \/ createLocationsAgain
    \/ createGroupAgainReloaded
    \/ createGroupAgainRejected

NextReturn == Return \/ ContinueReturn

SpecReturn == InitReturn /\ [][NextReturn]_vars

\* ------------------------------------------------- the address of each cell
\* Group forms with grids large enough for two-digit numbers, the whole
\* alphabet and the first row past it.
AddressForms ==
    [name : {"A", "B"}, rows : {2, 26, 27}, columns : {1, 3, 11},
     addressFormat : {"ROW-COL", "LETTER-NUMBER"}]

\* The state in which handleCreateGroup enters its creation loop, with one of
\* AddressForms in the form: layout 1 was created and selected, the groups
\* tab opened, column 1 selected, and createGroup has resolved with id 1.
InitAddress ==
    \E form \in AddressForms :
        LET layout == [id |-> 1, name |-> "A", rows |-> 1, columns |-> 2,
                       createdAt |-> 0]
        IN  /\ layouts = {layout}
            /\ groups = {[id |-> 1, name |-> form.name, layoutId |-> 1,
                          column |-> 1, rows |-> form.rows,
                          columns |-> form.columns, createdAt |-> 0]}
            /\ locations = {}
            /\ autoInc = [layouts |-> 2, groups |-> 2, locations |-> 1]
            /\ clock = 0
            /\ selectedLayout = Some(layout)
            /\ activeTab = "groups"
            /\ wl = wlInitial
            /\ gm = [selectedColumn |-> Some(1), groups |-> << >>, loading |-> TRUE]
            /\ lv = lvInitial
            /\ effects = [loadLayouts |-> {}, loadGroups |-> {}, loadData |-> {}]
            /\ cl = idle /\ dl = idle /\ dg = idle /\ tg = idle /\ tg2 = idle /\ cg2 = idle
            /\ cg = [pc |-> "createLocation", alive |-> TRUE, form |-> form, layout |-> layout,
                     groupId |-> 1, row |-> 0, col |-> 0]
            /\ toggles = 0
            /\ failures = 0
            /\ created = << [id |-> 1, name |-> "A", rows |-> 1, columns |-> 2] >>

\* handleCreateGroup from its creation loop to its end.
NextAddress ==
    \/ createLocations
    \/ createGroupReloaded
    \/ createGroupRejected

SpecAddress == InitAddress /\ [][NextAddress]_vars

\* ------------------------------------------------------------------ claims
\* C1: once deleteLayout(id) has completed, getLayoutById(id) returns
\* nothing, getGroupsByLayoutId(id) and getLocationsByLayoutId(id) are
\* empty, and getLocationsByGroupId(g) is empty for every group g that
\* belonged to the layout when the call began.
DeleteLayoutCascades ==
    dl.pc = "deleteLayout" =>
        /\ getLayoutById(dl.id) = Null
        /\ getGroupsByLayoutId(dl.id) = << >>
        /\ getLocationsByLayoutId(dl.id) = << >>
        /\ \A g \in whereLayoutId(dl.groupsBefore, dl.id) :
              getLocationsByGroupId(g.id) = << >>

\* deleteLayout has completed on a layout that had two groups, one of them
\* with locations.
DeleteLayoutCascadesWitness ==
    /\ dl.pc = "deleteLayout"
    /\ Cardinality(whereLayoutId(dl.groupsBefore, dl.id)) = 2
    /\ \E g \in whereLayoutId(dl.groupsBefore, dl.id) :
          whereGroupId(dl.locationsBefore, g.id) # {}

\* C2: when the group-creation flow has created its last location without a
\* storage failure, exactly rows * columns locations carry the new group's
\* id, their (row, column) pairs are pairwise distinct, and the pairs are
\* exactly [0, rows) x [0, columns).
GroupCreationFillsGrid ==
    cg.pc = "loadGroups" =>
        LET group == CHOOSE g \in groups : g.id = cg.groupId
            cells == whereGroupId(locations, cg.groupId)
        IN  /\ \E g \in groups : g.id = cg.groupId
            /\ group.rows = cg.form.rows /\ group.columns = cg.form.columns
            /\ Cardinality(cells) = group.rows * group.columns
            /\ \A a, b \in cells :
                  a # b => << a.row, a.column >> # << b.row, b.column >>
            /\ {<< l.row, l.column >> : l \in cells}
                  = (0 .. group.rows - 1) \X (0 .. group.columns - 1)

\* A 2 x 2 group has been created.
GroupCreationFillsGridWitness ==
    /\ cg.pc = "loadGroups"
    /\ cg.form.rows = 2 /\ cg.form.columns = 2
    /\ Cardinality(whereGroupId(locations, cg.groupId)) = 4

\* C3: whenever no create or delete operation is in progress, every stored
\* group's layoutId identifies a stored layout and every stored location's
\* groupId identifies a stored group.
ReferentialIntegrity ==
    Quiescent =>
        /\ \A g \in groups : \E l \in layouts : l.id = g.layoutId
        /\ \A l \in locations : \E g \in groups : g.id = l.groupId

\* C4: once deleteGroup(id) has completed, the groups table is what it was
\* less the group with that id, and the locations table is what it was less
\* the locations whose groupId is id, every remaining record unchanged.
DeleteGroupFrame ==
    dg.pc = "deleteGroup" =>
        /\ groups = {g \in dg.groupsBefore : g.id # dg.id}
        /\ locations = {l \in dg.locationsBefore : l.groupId # dg.id}

\* deleteGroup has completed on a group with locations, and a sibling group
\* of the same layout has locations too.
DeleteGroupFrameWitness ==
    /\ dg.pc = "deleteGroup"
    /\ \E d \in dg.groupsBefore, g \in groups :
          /\ d.id = dg.id /\ g.layoutId = d.layoutId
          /\ whereGroupId(dg.locationsBefore, d.id) # {}
          /\ whereGroupId(locations, g.id) # {}

\* C5: once the toggle's updateLocation has resolved, the stored locations
\* are what they were, except that the selected location's isOccupied is the
\* negation of what it was; its other fields and all other locations are
\* unchanged.
ToggleFrame ==
    tg.pc = "updateLocation" =>
        /\ \E l \in tg.locationsBefore : l.id = tg.selectedLocation.id
        /\ locations =
              { IF l.id = tg.selectedLocation.id
                THEN [l EXCEPT !.isOccupied = ~l.isOccupied]
                ELSE l : l \in tg.locationsBefore }

\* A location of a group with several locations has been toggled.
ToggleFrameWitness ==
    /\ tg.pc = "updateLocation"
    /\ Cardinality(locations) >= 2
    /\ \E l \in locations : l.id = tg.selectedLocation.id /\ l.isOccupied

\* C6: for every createLayout call that returned an id and whose layout has
\* not been deleted since, whatever other layouts were created or deleted in
\* between, getLayoutById of that id returns a layout with the name, rows
\* and columns the call was given.
CreateReadRoundTrip ==
    \A i \in 1 .. Len(created) :
        LET read == getLayoutById(created[i].id)
        IN  /\ read # Null
            /\ read[1].id = created[i].id
            /\ read[1].name = created[i].name
            /\ read[1].rows = created[i].rows
            /\ read[1].columns = created[i].columns

\* Layout 1 is read back after layout 2 was created and deleted.
CreateReadRoundTripWitness ==
    /\ Len(created) = 1 /\ created[1].id = 1
    /\ created[1].rows # created[1].columns
    /\ autoInc.layouts = 3
    /\ getLayoutById(1) # Null /\ getLayoutById(2) = Null

\* C7: getLayouts() returns every stored layout exactly once, by
\* non-increasing creation time, and a layout created later never appears
\* after one created earlier.
GetLayoutsNewestFirst ==
    LET result == getLayouts
    IN  /\ Len(result) = Cardinality(layouts)
        /\ Range(result) = layouts
        /\ \A p, q \in 1 .. Len(result) :
              p < q => result[p].createdAt >= result[q].createdAt
        /\ \A l \in layouts : \E i \in 1 .. Len(created) : created[i].id = l.id
        /\ \A i, j \in 1 .. Len(created) :
              i < j =>
                \A p, q \in 1 .. Len(result) :
                    result[p].id = created[j].id /\ result[q].id = created[i].id
                        => p < q

\* Three layouts are stored, two of them created at the same clock reading.
GetLayoutsNewestFirstWitness ==
    /\ Cardinality(layouts) = 3
    /\ \E a, b, c \in layouts :
          /\ a.id < b.id /\ a.createdAt = b.createdAt
          /\ c.createdAt # a.createdAt

\* C8: no two records of a table share an identifier, and the identifier the
\* next create of a table returns is one that no record of the table has.
UniqueIds ==
    /\ \A a, b \in layouts : a.id = b.id => a = b
    /\ \A a, b \in groups : a.id = b.id => a = b
    /\ \A a, b \in locations : a.id = b.id => a = b
    /\ \A r \in layouts : r.id # autoInc.layouts
    /\ \A r \in groups : r.id # autoInc.groups
    /\ \A r \in locations : r.id # autoInc.locations

\* A layout has been created after another was deleted: two are stored and
\* three identifiers have been handed out.
UniqueIdsWitness ==
    /\ Cardinality(layouts) = 2
    /\ autoInc.layouts = 4

\* The uppercase letters, counting from "A".
Alphabet ==
    << "A", "B", "C", "D", "E", "F", "G", "H", "I", "J", "K", "L", "M",
       "N", "O", "P", "Q", "R", "S", "T", "U", "V", "W", "X", "Y", "Z" >>

\* The locations created so far by the handleCreateGroup call in flight.
cellsOfCall == whereGroupId(locations, cg.groupId)

\* C9: with address format "ROW-COL", every location generated for group
\* name N at 0-based (row, col) has address N-(row+1)-(col+1); group "A"
\* gives "A-1-1" for (0,0) and "A-2-3" for (1,2).
AddressRowCol ==
    (cg.pc \in {"createLocation", "loadGroups"}
        /\ cg.form.addressFormat = "ROW-COL") =>
        \A l \in cellsOfCall :
            /\ l.address = cg.form.name \o "-" \o ToString(l.row + 1)
                                        \o "-" \o ToString(l.column + 1)
            /\ (cg.form.name = "A" /\ l.row = 0 /\ l.column = 0)
                  => l.address = "A-1-1"
            /\ (cg.form.name = "A" /\ l.row = 1 /\ l.column = 2)
                  => l.address = "A-2-3"

\* Group "A" of 26 x 11 cells has been created with format "ROW-COL".
AddressRowColWitness ==
    /\ cg.pc = "loadGroups"
    /\ cg.form.addressFormat = "ROW-COL" /\ cg.form.name = "A"
    /\ \E a, b, c \in cellsOfCall :
          /\ a.row = 0 /\ a.column = 0 /\ a.address = "A-1-1"
          /\ b.row = 1 /\ b.column = 2 /\ b.address = "A-2-3"
          /\ c.row = 25 /\ c.column = 10 /\ c.address = "A-26-11"

\* C10: with address format "LETTER-NUMBER", every location generated for
\* group name N at 0-based (row, col) with row < 26 has address
\* N-L-(col+1), L the row-th uppercase letter counting from "A"; group "B"
\* gives "B-A-1" for (0,0) and "B-B-1" for (1,0); and once a group of at
\* most 26 rows is complete its addresses are pairwise distinct.
AddressLetterNumber ==
    (cg.pc \in {"createLocation", "loadGroups"}
        /\ cg.form.addressFormat = "LETTER-NUMBER") =>
        /\ \A l \in cellsOfCall :
              l.row < 26 =>
                /\ l.address = cg.form.name \o "-" \o Alphabet[l.row + 1]
                                            \o "-" \o ToString(l.column + 1)
                /\ (cg.form.name = "B" /\ l.row = 0 /\ l.column = 0)
                      => l.address = "B-A-1"
                /\ (cg.form.name = "B" /\ l.row = 1 /\ l.column = 0)
                      => l.address = "B-B-1"
        /\ (cg.pc = "loadGroups" /\ cg.form.rows <= 26) =>
              \A a, b \in cellsOfCall : a # b => a.address # b.address

\* Group "B" of 26 x 11 cells has been created with format "LETTER-NUMBER".
AddressLetterNumberWitness ==
    /\ cg.pc = "loadGroups"
    /\ cg.form.addressFormat = "LETTER-NUMBER" /\ cg.form.name = "B"
    /\ cg.form.rows = 26
    /\ \E a, b, c \in cellsOfCall :
          /\ a.row = 0 /\ a.column = 0 /\ a.address = "B-A-1"
          /\ b.row = 1 /\ b.column = 0 /\ b.address = "B-B-1"
          /\ c.row = 25 /\ c.column = 10 /\ c.address = "B-Z-11"

\* C11: every step of a deleteLayout(id) run, resolved or rejected, leaves a
\* state in which no location is stored whose group the run has deleted, and
\* in which, if the layout row is gone, no group of the layout is stored.
DeleteLayoutChildFirst ==
    [][ dl.pc \in {"getGroups", "deleteGroups"} =>
            /\ \A g \in whereLayoutId(dl.groupsBefore, dl.id) \ groups' :
                  whereGroupId(locations', g.id) = {}
            /\ get(layouts', dl.id) = Null
                  => whereLayoutId(groups', dl.id) = {} ]_vars

\* A deleteLayout run is between the delete of the groups and the delete of
\* the layout row: two groups, one that had locations, are gone, and the
\* layout is still stored.
DeleteLayoutChildFirstWitness ==
    /\ dl.pc = "deleteGroups"
    /\ get(layouts, dl.id) # Null
    /\ Cardinality(whereLayoutId(dl.groupsBefore, dl.id)) = 2
    /\ whereLayoutId(groups, dl.id) = {}
    /\ \E g \in whereLayoutId(dl.groupsBefore, dl.id) :
          whereGroupId(dl.locationsBefore, g.id) # {}

\* C12: every stored group whose layout is stored has its column in
\* [1, layout.columns], and handleCreateGroup starts a creation, and a group
\* row is added, only when the selected column is set and lies in
\* [1, columns] of the selected layout; any other attempt changes nothing.
ColumnInRange ==
    [][ /\ \A g \in groups' : \A l \in layouts' :
              l.id = g.layoutId => g.column \in 1 .. l.columns
        /\ ((cg.pc = "idle" /\ cg'.pc # "idle") \/ ~(groups' \subseteq groups))
              => /\ selectedLayout # Null /\ gm.selectedColumn # Null
                 /\ gm.selectedColumn[1] \in 1 .. selectedLayout[1].columns
                 /\ \A g \in groups' \ groups :
                       /\ g.column = gm.selectedColumn[1]
                       /\ g.layoutId = selectedLayout[1].id ]_vars

\* The group form is open and idle with column 2 selected, taken from a
\* group still listed for the previous layout, while the selected layout has
\* one column: the next click on "Create Group" is an out-of-range attempt.
ColumnInRangeWitness ==
    /\ activeTab = "groups"
    /\ cg.pc = "idle" /\ ~gm.loading
    /\ selectedLayout # Null /\ gm.selectedColumn # Null
    /\ selectedLayout[1].columns = 1
    /\ gm.selectedColumn[1] = 2

\* C13: a step adds a layout only with a name that is not blank and rows
\* and columns of at least 1, and adds a group only with a layout and a
\* column selected, a name that is not empty and rows and columns of at
\* least 1 (an attempt failing a validation changes no table); so every
\* stored layout and group has such a name, rows and columns.
ValidationGuardsStore ==
    [][ /\ \A l \in layouts' :
              l.name \notin {"", " "} /\ l.rows >= 1 /\ l.columns >= 1
        /\ \A g \in groups' :
              g.name \notin {"", " "} /\ g.rows >= 1 /\ g.columns >= 1
        /\ ~(groups' \subseteq groups)
              => selectedLayout # Null /\ gm.selectedColumn # Null ]_vars

\* Both forms are open to a click, one after the other, with a layout and a
\* group stored: the layouts tab is idle, and a group has been created.
ValidationGuardsStoreWitness ==
    /\ activeTab = "layout" /\ cl.pc = "idle" /\ ~wl.loading
    /\ Cardinality(layouts) = 2 /\ groups # {}

\* C14: in every reachable state, every stored location whose group is
\* stored has the layoutId of that group.
LayoutIdConsistent ==
    \A l \in locations : \A g \in groups :
        g.id = l.groupId => l.layoutId = g.layoutId

\* Two layouts are stored and the second has a group with locations, so the
\* group's id differs from its layoutId.
LayoutIdConsistentWitness ==
    \E l \in locations, g \in groups :
        /\ g.id = l.groupId /\ g.id # g.layoutId
        /\ Cardinality(layouts) = 2

\* The locations of group g are exactly one per cell of its grid.
gridFilled(g) ==
    LET cells == whereGroupId(locations, g.id)
    IN  /\ \A row \in 0 .. g.rows - 1, column \in 0 .. g.columns - 1 :
              Cardinality({l \in cells : l.row = row /\ l.column = column}) = 1
        /\ \A l \in cells :
              l.row \in 0 .. g.rows - 1 /\ l.column \in 0 .. g.columns - 1

OnlyOccupancyMutates ==
    [][ /\ \A a \in locations, b \in locations' :
              a.id = b.id =>
                /\ b.groupId = a.groupId /\ b.layoutId = a.layoutId
                /\ b.row = a.row /\ b.column = a.column
                /\ b.address = a.address
        /\ \A a \in layouts, b \in layouts' : a.id = b.id => a = b
        /\ \A a \in groups, b \in groups' : a.id = b.id => a = b
        /\ \A b \in locations' :
              (\A a \in locations : a.id # b.id) => ~b.isOccupied ]_vars

\* A stored location has been toggled to occupied, beside one that has not.
OnlyOccupancyMutatesWitness ==
    \E a, b \in locations : a.isOccupied /\ ~b.isOccupied

\* C17: a step adds at most one location; when it adds location l, the group
\* of l is already stored and the locations of that group stored before are
\* exactly the l.row * columns + l.column cells that precede l in row-major
\* order; and the group-list reload of a creation is issued only when all
\* rows * columns locations of the group are stored.
CreationInProgramOrder ==
    [][ LET added == {b \in locations' : \A a \in locations : a.id # b.id}
        IN
        /\ Cardinality(added) <= 1
        /\ \A l \in added :
              /\ \E g \in groups : g.id = l.groupId
              /\ \A g \in groups :
                    g.id = l.groupId =>
                      {<< c.row, c.column >> : c \in whereGroupId(locations, g.id)}
                        = {rc \in (0 .. g.rows - 1) \X (0 .. g.columns - 1) :
                              rc[1] * g.columns + rc[2]
                                < l.row * g.columns + l.column}
        /\ (cg.pc = "createLocation" /\ cg'.pc = "loadGroups") =>
              Cardinality(whereGroupId(locations, cg.groupId))
                = cg.form.rows * cg.form.columns ]_vars

\* The creation loop of a 2 x 2 group has inserted three locations and is
\* about to insert the one at (1, 1).
CreationInProgramOrderWitness ==
    /\ cg.pc = "createLocation"
    /\ cg.form.rows = 2 /\ cg.form.columns = 2
    /\ cg.row = 1 /\ cg.col = 1
    /\ Cardinality(whereGroupId(locations, cg.groupId)) = 3

\* C18: when a createLocation of the creation loop is rejected, the handler
\* goes to its catch block with the group row and the locations inserted so
\* far still stored; the catch block (the failure notice) ends the call with
\* the store and the group list as they are and the loading flag reset; and
\* a location is only ever added by the loop of the call in flight, for its
\* own group, so none is added for the abandoned group afterwards.
FailureLeavesPartialGroup ==
    [][ /\ (cg.pc = "createLocation" /\ cg'.pc = "catch") =>
              /\ groups' = groups /\ locations' = locations
              /\ \E g \in groups' : g.id = cg.groupId
        /\ cg.pc = "catch" =>
              /\ cg'.pc = "idle"
              /\ groups' = groups /\ locations' = locations
              /\ gm'.groups = gm.groups
              /\ cg.alive => ~gm'.loading
        /\ \A b \in locations' :
              (\A a \in locations : a.id # b.id) =>
                  cg.pc = "createLocation" /\ b.groupId = cg.groupId ]_vars

\* The handler is in its catch block and a stored 2 x 2 group has some but
\* not all of its locations.
FailureLeavesPartialGroupWitness ==
    /\ cg.pc = "catch" /\ gm.loading
    /\ \E g \in groups :
          /\ g.rows = 2 /\ g.columns = 2
          /\ Cardinality(whereGroupId(locations, g.id)) \in 1 .. 3

\* C19: handleCreateGroup stores a group with a column and no row, so no
\* stored and no loaded group has a row value; the visualization matches a
\* group to the cell whose 1-based row and column equal the group's row and
\* column, so no cell of the selected layout's grid is matched to a group
\* and no location is rendered in the grid.
GroupsMatchNoCell ==
    /\ \A g \in groups : rowOf(g) = Null
    /\ \A g \in Range(lv.groups) : rowOf(g) = Null
    /\ selectedLayout # Null =>
          \A rowIndex \in 0 .. selectedLayout[1].rows - 1 :
             \A colIndex \in 0 .. selectedLayout[1].columns - 1 :
                groupAt(rowIndex, colIndex) = Null
    /\ renderedLocations = {}

\* The visualization is shown, loaded, for a layout with a group whose column
\* is a column of the layout's grid and whose locations are loaded.
GroupsMatchNoCellWitness ==
    /\ activeTab = "visualization" /\ selectedLayout # Null /\ ~lv.loading
    /\ \E g \in Range(lv.groups) :
          /\ g \in groups
          /\ g.layoutId = selectedLayout[1].id
          /\ g.column \in 1 .. selectedLayout[1].columns
          /\ \E loc \in Range(lv.locations) : loc.groupId = g.id

\* C20: when a layout or a group is deleted while a group-creation loop for
\* it is still inserting locations, then once the creation and the deletion
\* have both finished, and no storage call was rejected, every stored
\* location's groupId names a stored group and every stored group's layoutId
\* names a stored layout.
NoOrphansAfterOverlap ==
    (/\ cg.pc = "idle" /\ dl.pc = "idle" /\ dg.pc = "idle"
     /\ failures = 0)
    => /\ \A loc \in locations : \E g \in groups : g.id = loc.groupId
       /\ \A g \in groups : \E y \in layouts : y.id = g.layoutId

\* C21: when handleDeleteLayout returns after deleteLayout resolved, the
\* selected layout is null or a stored layout, and when its reload
\* succeeded it is the most recently created stored layout, or null when no
\* layout is stored; when handleCreateLayout returns after createLayout and
\* the reload succeeded, the selected layout is the layout just created,
\* which is the most recently created stored layout.
SelectionFollowsStore ==
    [][ /\ (dl.pc = "loadLayouts" /\ dl'.pc = "idle") =>
              /\ selectedLayout' = Null \/ selectedLayout'[1] \in layouts'
              /\ dl.loaded.ok =>
                    selectedLayout' = IF layouts' = {} THEN Null
                                      ELSE Some(Head(getLayouts))
        /\ (cl.pc = "loadLayouts" /\ cl'.pc = "idle" /\ cl.loaded.ok) =>
              /\ selectedLayout' # Null
              /\ selectedLayout'[1].id = autoInc.layouts - 1
              /\ selectedLayout' = Some(Head(getLayouts)) ]_vars

OneCreationPerForm ==
    [][ /\ (cg.pc = "idle" /\ cg'.pc # "idle") => ~gm.loading
        /\ (cg2.pc = "idle" /\ cg2'.pc # "idle") => ~gm.loading
        /\ ~(cg'.pc # "idle" /\ cg2'.pc # "idle") ]_vars
====
